---- MODULE Spec2Model ----
(***************************************************************************)
(* taxmat: conversion of staking-reward CSV exports (subscan, kraken,      *)
(* staketax) into tax-tool CSV files (bitcointax, cointracking).           *)
(*                                                                         *)
(* One run of the binary is a record `run`; `opt` is the command line and  *)
(* `file` the input CSV.  A second run (`run2` under `opt2`, over the same *)
(* file) is used to compare two invocations.                               *)
(***************************************************************************)
EXTENDS Integers, Sequences, FiniteSets, TLC

VARIABLES opt, file, run, opt2, run2

vars == <<opt, file, run, opt2, run2>>

\* Longest input file (data rows) of a single run.
MaxRows == 2

\* Longest input file (data rows) when two runs are compared.
PairMaxRows == 1

(***************************************************************************)
(* Option<T>                                                               *)
(***************************************************************************)
None == <<>>

Some(x) == <<x>>

IsSome(o) == Len(o) = 1

Unwrap(o) == o[1]

(***************************************************************************)
(* chrono: NaiveDate / NaiveDateTime.  A date-time is the tuple            *)
(* <<year, month, day, hour, minute, second>>.                             *)
(***************************************************************************)
IsLeap(y) == (y % 4 = 0 /\ y % 100 # 0) \/ y % 400 = 0

DaysInMonth(y, m) ==
    CASE m \in {1, 3, 5, 7, 8, 10, 12} -> 31
      [] m \in {4, 6, 9, 11} -> 30
      [] m = 2 -> IF IsLeap(y) THEN 29 ELSE 28
      [] OTHER -> 0

\* NaiveDate::from_ymd_opt: None for a date that is not on the calendar.
from_ymd_opt(y, m, d) ==
    IF m \in 1..12 /\ d >= 1 /\ d <= DaysInMonth(y, m)
    THEN Some(<<y, m, d>>)
    ELSE None

\* NaiveDate::and_hms_opt: None for an invalid time of day.
and_hms_opt(date, h, mi, s) ==
    IF h \in 0..23 /\ mi \in 0..59 /\ s \in 0..59
    THEN Some(<<date[1], date[2], date[3], h, mi, s>>)
    ELSE None

LeapsBefore(y) == ((y - 1) \div 4) - ((y - 1) \div 100) + ((y - 1) \div 400)

\* The days of year y before the first of month m.
DaysBeforeMonth(y, m) ==
    <<0, 31, 59, 90, 120, 151, 181, 212, 243, 273, 304, 334>>[m]
        + (IF m > 2 /\ IsLeap(y) THEN 1 ELSE 0)

\* Days from 2020-01-01 to the given date (the ordering of NaiveDate).
DayNumber(y, m, d) ==
    365 * (y - 2020) + (LeapsBefore(y) - LeapsBefore(2020))
        + DaysBeforeMonth(y, m) + (d - 1)

\* Seconds from 2020-01-01 00:00:00 (the ordering of NaiveDateTime).
Seconds(dt) ==
    DayNumber(dt[1], dt[2], dt[3]) * 86400 + dt[4] * 3600 + dt[5] * 60 + dt[6]

\* NaiveDateTime's `<=`.
DtLe(a, b) == Seconds(a) <= Seconds(b)

(***************************************************************************)
(* A timestamp string is [sep, f]: the six numeric fields f and the        *)
(* character between the date and the time (" " or "T").                   *)
(***************************************************************************)
Stamp(sep, f) == [sep |-> sep, f |-> f]

\* NaiveDateTime::parse_from_str(s, "%Y-%m-%d %H:%M:%S")
parse_from_str(s) ==
    IF s.sep # " " THEN None
    ELSE LET d == from_ymd_opt(s.f[1], s.f[2], s.f[3])
         IN  IF ~IsSome(d) THEN None
             ELSE and_hms_opt(Unwrap(d), s.f[4], s.f[5], s.f[6])

\* chrono's serde Serialize of NaiveDateTime: the ISO 8601 form with "T".
SerializeDateTime(dt) == Stamp("T", dt)

(***************************************************************************)
(* str::to_lowercase on the strings that occur on the command line and in  *)
(* the input files.                                                        *)
(***************************************************************************)
to_lowercase(s) ==
    CASE s = "DOT" -> "dot"
      [] s = "DOT.S" -> "dot.s"
      [] s = "KSM" -> "ksm"
      [] s = "ETH2" -> "eth2"
      [] s = "Kraken" -> "kraken"
      [] s = "StakeTax" -> "staketax"
      [] s = "CoinTracking" -> "cointracking"
      [] s = "Q1" -> "q1"
      [] s = "Q3" -> "q3"
      [] s = "ALL" -> "all"
      [] OTHER -> s

(***************************************************************************)
(* formats.rs: enumerations and their parsers.                             *)
(***************************************************************************)
Coin == {"DOT", "KSM", "ATOM", "ETH", "SOL", "KAVA", "ADA", "XTZ"}

\* impl FromStr for Coin: Some(coin), or None where the code panics.
CoinFromStr(s) ==
    LET l == to_lowercase(s)
    IN  CASE l \in {"dot", "dot.s"} -> Some("DOT")
          [] l \in {"ksm", "ksm.s"} -> Some("KSM")
          [] l \in {"atom", "atom.s"} -> Some("ATOM")
          [] l \in {"eth", "eth.s", "eth2", "eth2.s"} -> Some("ETH")
          [] l \in {"sol", "sol.s"} -> Some("SOL")
          [] l \in {"kava", "kava.s"} -> Some("KAVA")
          [] l \in {"ada", "ada.s"} -> Some("ADA")
          [] l \in {"xtz", "xtz.s"} -> Some("XTZ")
          [] OTHER -> None

\* impl Into<String> for Coin
CoinIntoString(c) ==
    CASE c = "DOT" -> "DOT2"
      [] c = "KSM" -> "KSM"
      [] c = "ATOM" -> "ATOM"
      [] c = "ETH" -> "ETH"
      [] c = "SOL" -> "SOL"
      [] c = "KAVA" -> "KAVA"
      [] c = "ADA" -> "ADA"
      [] c = "XTZ" -> "XTZ"

\* #[derive(Serialize)] on Coin: a unit variant is written as its name.
CoinSerialize(c) == c

\* impl FromStr for Quarter: Some(quarter), or None for "Invalid quarter!".
QuarterFromStr(s) ==
    LET l == to_lowercase(s)
    IN  CASE l \in {"q1", "1"} -> Some("Q1")
          [] l \in {"q2", "2"} -> Some("Q2")
          [] l \in {"q3", "3"} -> Some("Q3")
          [] l \in {"q4", "4"} -> Some("Q4")
          [] l = "all" -> Some("ALL")
          [] OTHER -> None

\* main: the match on options.input_format.
InputFormatOf(s) ==
    LET l == to_lowercase(s)
    IN  CASE l = "subscan" -> Some("Subscan")
          [] l = "kraken" -> Some("Kraken")
          [] l = "staketax" -> Some("StakeTax")
          [] OTHER -> None

\* main: the match on options.output_format.
OutputFormatOf(s) ==
    LET l == to_lowercase(s)
    IN  CASE l \in {"bitcointax", "bitcoin.tax"} -> Some("BitcoinTax")
          [] l \in {"cointracking", "coin tracking"} -> Some("CoinTracking")
          [] OTHER -> None

(***************************************************************************)
(* Input rows.  A CSV data row is [date, label, asset, amount, taxable]:   *)
(* the timestamp column, the Action / type / tx_type column, kraken's      *)
(* asset column, the Value / amount / received_amount column and           *)
(* staketax's taxable column, each as the text of the field.               *)
(***************************************************************************)
\* str::parse::<f64> on the amounts that occur in the input files.
ParseF64(s) ==
    CASE s = "5" -> Some(5)
      [] s = "7" -> Some(7)
      [] OTHER -> None

\* formats.rs bool_from_string
bool_from_string(s) ==
    LET l == to_lowercase(s)
    IN  CASE l = "true" -> Some(TRUE)
          [] l \in {"", "false"} -> Some(FALSE)
          [] OTHER -> None

\* serde/csv deserialisation of a row into Subscan: Value is an f64.
DeserializeSubscan(row) ==
    IF IsSome(ParseF64(row.amount))
    THEN Some([date |-> row.date, action |-> row.label,
               amount |-> Unwrap(ParseF64(row.amount))])
    ELSE None

\* serde/csv deserialisation of a row into Kraken: amount is an f64.
DeserializeKraken(row) ==
    IF IsSome(ParseF64(row.amount))
    THEN Some([date |-> row.date, action |-> row.label, asset |-> row.asset,
               amount |-> Unwrap(ParseF64(row.amount))])
    ELSE None

\* serde/csv deserialisation of a row into StakeTax: received_amount is an
\* Option<f64> (an empty field is None), taxable goes through
\* bool_from_string.
DeserializeStakeTax(row) ==
    IF ~IsSome(bool_from_string(row.taxable)) THEN None
    ELSE IF row.amount = ""
         THEN Some([timestamp |-> row.date, tx_type |-> row.label,
                    taxable |-> Unwrap(bool_from_string(row.taxable)),
                    received_amount |-> None])
         ELSE IF IsSome(ParseF64(row.amount))
              THEN Some([timestamp |-> row.date, tx_type |-> row.label,
                         taxable |-> Unwrap(bool_from_string(row.taxable)),
                         received_amount |-> ParseF64(row.amount)])
              ELSE None

\* impl InputRecord for StakeTax: get_amount
StakeTaxGetAmount(res) ==
    IF IsSome(res.received_amount) THEN Unwrap(res.received_amount) ELSE 0

(***************************************************************************)
(* Output records and their CSV rows.  A row of the output file is         *)
(* [kind, cells]: kind "header" for a row of column names, "record" for a  *)
(* serialised record.                                                      *)
(***************************************************************************)
\* BitcoinTax::create
BitcoinTaxCreate(date, volume, symbol) ==
    [date |-> date,
     action |-> "INCOME",
     account |-> CoinIntoString(symbol) \o " STAKING",
     symbol |-> symbol,
     volume |-> volume]

\* CoinTracking::create
CoinTrackingCreate(buy_amount, buy_currency, trade_group, comment, date) ==
    [tx_type |-> "Income",
     buy_amount |-> buy_amount,
     buy_currency |-> buy_currency,
     sell_amount |-> 0,
     sell_currency |-> "USD",
     fee |-> 0,
     fee_currency |-> "USD",
     exchange |-> "",
     trade_group |-> trade_group,
     comment |-> comment,
     date |-> date,
     tx_id |-> "",
     buy_value |-> 0]

\* OutputRecord::BT(record) as a CSV row (#[derive(Serialize)] field order).
SerializeBT(rec) ==
    [kind |-> "record",
     cells |-> <<SerializeDateTime(rec.date), rec.action, rec.account,
                 CoinSerialize(rec.symbol), rec.volume>>]

\* OutputRecord::CT(record) as a CSV row.
SerializeCT(rec) ==
    [kind |-> "record",
     cells |-> <<rec.tx_type, rec.buy_amount, rec.buy_currency,
                 rec.sell_amount, rec.sell_currency, rec.fee,
                 rec.fee_currency, rec.exchange, rec.trade_group,
                 rec.comment, SerializeDateTime(rec.date), rec.tx_id,
                 rec.buy_value>>]

\* parse_records: the header written for the BitcoinTax output.
BitcoinTaxHeader ==
    [kind |-> "header",
     cells |-> <<"Date", "Action", "Account", "Symbol", "Volume">>]

\* parse_records: the header written for the CoinTracking output.
CoinTrackingHeader ==
    [kind |-> "header",
     cells |-> <<"Type", "Buy Amount", "Buy Currency", "Sell Amount",
                 "Sell Currency", "Fee", "Fee Currency", "Exchange",
                 "Trade-Group", "Comment", "Date", "Tx-ID",
                 "Buy Value in Account Currency">>]

(***************************************************************************)
(* csv::Writer.  w is [rows, header]: the rows written and the writer's    *)
(* header state ("Write" until the first serialize).                       *)
(***************************************************************************)
\* csv::Writer::from_path with the default has_headers(true).
WriterFromPath == [rows |-> <<>>, header |-> "Write"]

\* wtr.write_record(fields): appends the row; the header state is untouched.
WriterWriteRecord(w, row) == [w EXCEPT !.rows = Append(@, row)]

\* wtr.serialize(record) of an OutputRecord.  The csv serialiser derives a
\* header only from a struct met at the top level; OutputRecord is an enum
\* whose newtype variant it treats as a scalar, so no header row is derived
\* and the state goes from Write to DidNotWrite.
WriterSerialize(w, row) ==
    [rows |-> Append(w.rows, row),
     header |-> IF w.header = "Write" THEN "DidNotWrite" ELSE w.header]

(***************************************************************************)
(* main.rs.  A run is the record                                           *)
(*   pc            where the run is: "main", "get_date_range", "open",     *)
(*                 "rows" (the for loop) or "exit"                         *)
(*   status, msg   "running"; at exit "ok", "error" (an Err returned from  *)
(*                 main), "panic" or "exit1" (process::exit(1))            *)
(*   coin, quarter, input_format, output_format   the parsed options       *)
(*   year, start_date, end_date                   get_date_range's result  *)
(*   rdr           the number of the next data row the reader yields       *)
(*   wtr           the csv writer and the rows it wrote                    *)
(***************************************************************************)
WriterNotOpen == [rows |-> <<>>, header |-> "None"]

NewRun ==
    [pc |-> "main", status |-> "running", msg |-> "",
     coin |-> "", quarter |-> "", input_format |-> "", output_format |-> "",
     year |-> 0, start_date |-> <<>>, end_date |-> <<>>,
     rdr |-> 0, wtr |-> WriterNotOpen]

\* A run that is never started.
IdleRun == [NewRun EXCEPT !.pc = "exit", !.status = "idle"]

Fail(r, status, msg) ==
    [r EXCEPT !.pc = "exit", !.status = status, !.msg = msg]

\* main: Opt::from_args (structopt parses coin with Coin::from_str, which
\* panics on an unknown name, and quarter with Quarter::from_str), then the
\* two matches on the format names.  No command line of the model has more
\* than one of these wrong, so the order of the first two tests is immaterial.
Main(r, o) ==
    LET coin == CoinFromStr(o.coin)
        quarter == QuarterFromStr(o.quarter)
        inf == InputFormatOf(o.input_format)
        outf == OutputFormatOf(o.output_format)
    IN  IF ~IsSome(coin) THEN Fail(r, "panic", "Invalid coin type!")
        ELSE IF ~IsSome(quarter) THEN Fail(r, "error", "Invalid quarter!")
        ELSE IF ~IsSome(inf) THEN Fail(r, "exit1", "Invalid input format!")
        ELSE IF ~IsSome(outf) THEN Fail(r, "exit1", "Invalid output format!")
        ELSE [r EXCEPT !.pc = "get_date_range",
                       !.coin = Unwrap(coin),
                       !.quarter = Unwrap(quarter),
                       !.input_format = Unwrap(inf),
                       !.output_format = Unwrap(outf)]

\* ResolveYear with --year ignored: the clock's year, always.
ResolveYearFromClock(year_opt, now) == now

\* get_date_range: the year is options.year, or the clock's year `now`.
ResolveYear(year_opt, now) ==
    IF IsSome(year_opt) THEN Unwrap(year_opt) ELSE now

\* get_date_range: (start_month, start_day)
QuarterStart(quarter) ==
    CASE quarter = "Q1" -> <<1, 1>>
      [] quarter = "Q2" -> <<4, 1>>
      [] quarter = "Q3" -> <<7, 1>>
      [] quarter = "Q4" -> <<10, 1>>
      [] quarter = "ALL" -> <<1, 1>>

\* QuarterEnd with the first quarter ending on 30 March.
QuarterEndThirty(quarter) ==
    CASE quarter = "Q1" -> <<3, 30>>
      [] quarter = "Q2" -> <<6, 30>>
      [] quarter = "Q3" -> <<9, 30>>
      [] quarter = "Q4" -> <<12, 31>>
      [] quarter = "ALL" -> <<12, 31>>

\* get_date_range: (end_month, end_day)
QuarterEnd(quarter) ==
    CASE quarter = "Q1" -> <<3, 31>>
      [] quarter = "Q2" -> <<6, 30>>
      [] quarter = "Q3" -> <<9, 30>>
      [] quarter = "Q4" -> <<12, 31>>
      [] quarter = "ALL" -> <<12, 31>>

\* get_date_range: Some(<<start_date, end_date>>), or None for the Err of
\* "failed to create ymd" / "failed to create hms".
get_date_range(quarter, year) ==
    LET s == QuarterStart(quarter)
        e == QuarterEnd(quarter)
        sd == from_ymd_opt(year, s[1], s[2])
        ed == from_ymd_opt(year, e[1], e[2])
    IN  IF ~IsSome(sd) \/ ~IsSome(ed) THEN None
        ELSE LET st == and_hms_opt(Unwrap(sd), 0, 0, 0)
                 en == and_hms_opt(Unwrap(ed), 23, 59, 59)
             IN  IF ~IsSome(st) \/ ~IsSome(en) THEN None
                 ELSE Some(<<Unwrap(st), Unwrap(en)>>)

\* The call of get_date_range that opens each of the three pipelines.
DateRangeStep(r, o, now) ==
    LET year == ResolveYear(o.year, now)
        range == get_date_range(r.quarter, year)
    IN  IF ~IsSome(range) THEN Fail(r, "error", "failed to create ymd")
        ELSE [r EXCEPT !.pc = "open",
                       !.year = year,
                       !.start_date = Unwrap(range)[1],
                       !.end_date = Unwrap(range)[2]]

\* csv::Reader::from_path and csv::Writer::from_path; parse_records then
\* writes the header of the output format, parse_kraken_file and
\* parse_staketax write none.
OpenStep(r, f) ==
    IF ~f.exists THEN Fail(r, "error", "No such file or directory")
    ELSE LET w == WriterFromPath
         IN  [r EXCEPT !.pc = "rows",
                       !.rdr = 1,
                       !.wtr = IF r.input_format = "Subscan"
                               THEN WriterWriteRecord(w,
                                        IF r.output_format = "BitcoinTax"
                                        THEN BitcoinTaxHeader
                                        ELSE CoinTrackingHeader)
                               ELSE w]

\* InWindow with `date < end_date`: the last second of the window is out.
InWindowEndExclusive(start_date, end_date, date) ==
    DtLe(start_date, date) /\ Seconds(date) < Seconds(end_date)

\* The date test of the three loops: start_date <= date && date <= end_date.
InWindow(start_date, end_date, date) ==
    DtLe(start_date, date) /\ DtLe(date, end_date)

\* RowError as skip-and-continue: the row is dropped, the loop goes on.
RowErrorSkips(r, msg) == [r EXCEPT !.rdr = @ + 1]

\* `result?` and `parse_from_str(..)?` in the loops: the Err leaves main.
RowError(r, msg) == Fail(r, "error", msg)

\* NotSupported as a silent skip of the row.
NotSupportedSkips(r) == [r EXCEPT !.rdr = @ + 1]

\* panic!("Not currently supported")
NotSupported(r) == Fail(r, "panic", "Not currently supported")

\* A row that fails the `if` of the loop: on to the next row.
RowSkipped(r) == [r EXCEPT !.rdr = @ + 1]

\* wtr.serialize(record)? at the end of the `if`, then the next row.
RowWritten(r, row) ==
    [r EXCEPT !.wtr = WriterSerialize(@, row), !.rdr = @ + 1]

\* parse_records::<Subscan>: one turn of the for loop.
parse_records(r, row) ==
    LET res == DeserializeSubscan(row)
    IN  IF ~IsSome(res) THEN RowError(r, "CSV deserialize error")
        ELSE LET date == parse_from_str(Unwrap(res).date)
             IN  IF ~IsSome(date) THEN RowError(r, "input contains invalid characters")
                 ELSE IF InWindow(r.start_date, r.end_date, Unwrap(date))
                      THEN RowWritten(r,
                             IF r.output_format = "BitcoinTax"
                             THEN SerializeBT(BitcoinTaxCreate(
                                      Unwrap(date), Unwrap(res).amount, r.coin))
                             ELSE SerializeCT(CoinTrackingCreate(
                                      Unwrap(res).amount, CoinIntoString(r.coin),
                                      "Polkadot Staking", "Self-Staking",
                                      Unwrap(date))))
                      ELSE RowSkipped(r)

\* parse_staketax: the condition of the `if`.
StakeTaxAccepts(r, res, date) ==
    InWindow(r.start_date, r.end_date, date) /\ res.tx_type = "STAKING"

\* parse_staketax: one turn of the for loop.
parse_staketax(r, row) ==
    LET res == DeserializeStakeTax(row)
    IN  IF ~IsSome(res) THEN RowError(r, "CSV deserialize error")
        ELSE LET date == parse_from_str(Unwrap(res).timestamp)
             IN  IF ~IsSome(date) THEN RowError(r, "input contains invalid characters")
                 ELSE IF StakeTaxAccepts(r, Unwrap(res), Unwrap(date))
                      THEN IF r.output_format = "BitcoinTax"
                           THEN RowWritten(r, SerializeBT(BitcoinTaxCreate(
                                    Unwrap(date), StakeTaxGetAmount(Unwrap(res)),
                                    r.coin)))
                           ELSE NotSupported(r)
                      ELSE RowSkipped(r)

\* KrakenAccepts without the test of the type label.
KrakenAcceptsAnyType(r, res, date) ==
    InWindow(r.start_date, r.end_date, date)

\* parse_kraken_file: the condition of the `if`.
KrakenAccepts(r, res, date) ==
    InWindow(r.start_date, r.end_date, date) /\ res.action = "staking"

\* KrakenCoin taken from --coin (`let symbol = options.coin`).
KrakenCoinFromOptions(r, res) == Some(r.coin)

\* KrakenCoin with DOT for an asset that is no coin.
KrakenCoinDefaultsToDot(r, res) ==
    IF IsSome(CoinFromStr(res.asset)) THEN CoinFromStr(res.asset) ELSE Some("DOT")

\* parse_kraken_file: the coin of a row, res.asset.parse::<Coin>().
KrakenCoin(r, res) == CoinFromStr(res.asset)

\* parse_kraken_file: one turn of the for loop.
parse_kraken_file(r, row) ==
    LET res == DeserializeKraken(row)
    IN  IF ~IsSome(res) THEN RowError(r, "CSV deserialize error")
        ELSE LET date == parse_from_str(Unwrap(res).date)
             IN  IF ~IsSome(date) THEN RowError(r, "input contains invalid characters")
                 ELSE IF KrakenAccepts(r, Unwrap(res), Unwrap(date))
                      THEN LET coin == KrakenCoin(r, Unwrap(res))
                           IN  IF ~IsSome(coin)
                               THEN Fail(r, "panic", "Invalid coin type!")
                               ELSE IF r.output_format = "BitcoinTax"
                                    THEN RowWritten(r, SerializeBT(BitcoinTaxCreate(
                                             Unwrap(date), Unwrap(res).amount,
                                             Unwrap(coin))))
                                    ELSE NotSupported(r)
                      ELSE RowSkipped(r)

\* The for loop is over: the pipeline returns Ok(()), and so does main.
Finish(r) == [r EXCEPT !.pc = "exit", !.status = "ok"]

\* One turn of the loop of the pipeline main dispatched to.
RowStep(r, row) ==
    CASE r.input_format = "Subscan" -> parse_records(r, row)
      [] r.input_format = "Kraken" -> parse_kraken_file(r, row)
      [] r.input_format = "StakeTax" -> parse_staketax(r, row)

\* The next step of run r under options o, on file f, with the clock's
\* year at `now`.
Advance(r, o, f, now) ==
    CASE r.pc = "main" -> Main(r, o)
      [] r.pc = "get_date_range" -> DateRangeStep(r, o, now)
      [] r.pc = "open" -> OpenStep(r, f)
      [] r.pc = "rows" -> IF r.rdr > Len(f.rows) THEN Finish(r)
                          ELSE RowStep(r, f.rows[r.rdr])
      [] OTHER -> r

(***************************************************************************)
(* The inputs of the model: timestamps on and around the quarter bounds of *)
(* 2021, command lines, input files.                                       *)
(***************************************************************************)
Q1End == Stamp(" ", <<2021, 3, 31, 23, 59, 59>>)

Q2Start == Stamp(" ", <<2021, 4, 1, 0, 0, 0>>)

Q2End == Stamp(" ", <<2021, 6, 30, 23, 59, 59>>)

Q3Start == Stamp(" ", <<2021, 7, 1, 0, 0, 0>>)

\* 30 February: the right shape, not a date.
NoSuchDay == Stamp(" ", <<2021, 2, 30, 0, 0, 0>>)

\* "2021-04-01T00:00:00": a date, not the shape the loops parse.
IsoStamp == Stamp("T", <<2021, 4, 1, 0, 0, 0>>)

Row(date, label, asset, amount, taxable) ==
    [date |-> date, label |-> label, asset |-> asset, amount |-> amount,
     taxable |-> taxable]

SubscanRows ==
    { Row(Q2Start, "Reward", "", "5", ""),
      Row(Q2End, "Reward", "", "7", ""),
      Row(Q1End, "Reward", "", "5", ""),
      Row(Q3Start, "Slash", "", "7", ""),
      Row(NoSuchDay, "Reward", "", "5", ""),
      Row(IsoStamp, "Reward", "", "5", ""),
      Row(Q2Start, "Reward", "", "abc", ""),
      Row(Q3Start, "Reward", "", "", "") }

KrakenRows ==
    { Row(Q2Start, "staking", "DOT.S", "5", ""),
      Row(Q2End, "staking", "ETH2", "7", ""),
      Row(Q1End, "staking", "ksm", "5", ""),
      Row(Q3Start, "staking", "doge", "5", ""),
      Row(Q2Start, "deposit", "doge", "5", ""),
      Row(Q2End, "staking", "doge", "5", ""),
      Row(Q2Start, "STAKING", "DOT.S", "7", ""),
      Row(NoSuchDay, "staking", "DOT.S", "5", ""),
      Row(IsoStamp, "deposit", "DOT.S", "5", ""),
      Row(Q2Start, "staking", "DOT.S", "abc", ""),
      Row(Q3Start, "deposit", "ksm", "", "") }

StakeTaxRows ==
    { Row(Q2Start, "STAKING", "", "5", "true"),
      Row(Q2End, "STAKING", "", "7", ""),
      Row(Q2Start, "STAKING", "", "", "false"),
      Row(Q1End, "STAKING", "", "5", "true"),
      Row(Q3Start, "STAKING", "", "5", "true"),
      Row(Q2Start, "UNSTAKING", "", "5", "true"),
      Row(Q2End, "staking", "", "7", "true"),
      Row(NoSuchDay, "STAKING", "", "5", "true"),
      Row(IsoStamp, "UNSTAKING", "", "5", "true"),
      Row(Q2Start, "STAKING", "", "abc", "true"),
      Row(Q3Start, "UNSTAKING", "", "5", "maybe") }

\* The data rows an input file of the named format may hold.
RowsOf(input_format) ==
    LET l == to_lowercase(input_format)
    IN  CASE l = "kraken" -> KrakenRows
          [] l = "staketax" -> StakeTaxRows
          [] OTHER -> SubscanRows

SeqsUpTo(S, n) == UNION {[1..k -> S] : k \in 0..n}

\* The input path names no file, or a CSV file of up to n data rows.
Files(input_format, n) ==
    {[exists |-> FALSE, rows |-> <<>>]}
        \cup {[exists |-> TRUE, rows |-> s] : s \in SeqsUpTo(RowsOf(input_format), n)}

\* The years the system clock may show when a run reads it.
ClockYears == {2021, 2024}

Opt(input_format, output_format, coin, year, quarter) ==
    [input_format |-> input_format, output_format |-> output_format,
     coin |-> coin, year |-> year, quarter |-> quarter]

InputFormatArgs == {"subscan", "Kraken", "staketax"}

OutputFormatArgs == {"bitcointax", "CoinTracking"}

YearArgs == {None, Some(2021)}

\* Command lines run on every input file.
MainOpts ==
    {Opt(i, o, c, y, q) :
        i \in InputFormatArgs, o \in OutputFormatArgs, c \in {"DOT", "ksm"},
        y \in YearArgs, q \in {"2", "all"}}

\* Command lines run on the short input files: the other quarters, a leap
\* year, and names that main rejects.
EdgeOpts ==
    {Opt(i, o, "DOT", y, q) :
        i \in InputFormatArgs, o \in OutputFormatArgs,
        y \in YearArgs \cup {Some(2024)}, q \in {"Q1", "q3", "4"}}
    \cup {Opt(i, "bitcointax", c, None, "2") :
            i \in InputFormatArgs, c \in {"ETH2", "doge"}}
    \cup {Opt(i, "bitcointax", "DOT", None, "Q5") : i \in InputFormatArgs}
    \cup {Opt("csv", "bitcointax", "DOT", None, "all"),
          Opt("subscan", "xlsx", "DOT", None, "all")}

\* Command lines of the first of two compared runs.
PairOpts ==
    {Opt(i, o, c, y, q) :
        i \in InputFormatArgs, o \in OutputFormatArgs,
        c \in {"DOT", "ksm", "doge"}, y \in YearArgs, q \in {"2", "all"}}

(***************************************************************************)
(* One run.                                                                *)
(***************************************************************************)
Init ==
    /\ \/ /\ opt \in MainOpts
          /\ file \in Files(opt.input_format, MaxRows)
       \/ /\ opt \in EdgeOpts
          /\ file \in Files(opt.input_format, 1)
    /\ run = NewRun
    /\ opt2 = opt
    /\ run2 = IdleRun

MainStart ==
    /\ run.pc = "main"
    /\ run' = Main(run, opt)
    /\ UNCHANGED <<opt, file, opt2, run2>>

GetDateRange ==
    /\ run.pc = "get_date_range"
    /\ \E now \in ClockYears : run' = DateRangeStep(run, opt, now)
    /\ UNCHANGED <<opt, file, opt2, run2>>

Open ==
    /\ run.pc = "open"
    /\ run' = OpenStep(run, file)
    /\ UNCHANGED <<opt, file, opt2, run2>>

ParseRecords ==
    /\ run.pc = "rows"
    /\ run.input_format = "Subscan"
    /\ run.rdr <= Len(file.rows)
    /\ run' = parse_records(run, file.rows[run.rdr])
    /\ UNCHANGED <<opt, file, opt2, run2>>

ParseKrakenFile ==
    /\ run.pc = "rows"
    /\ run.input_format = "Kraken"
    /\ run.rdr <= Len(file.rows)
    /\ run' = parse_kraken_file(run, file.rows[run.rdr])
    /\ UNCHANGED <<opt, file, opt2, run2>>

ParseStakeTax ==
    /\ run.pc = "rows"
    /\ run.input_format = "StakeTax"
    /\ run.rdr <= Len(file.rows)
    /\ run' = parse_staketax(run, file.rows[run.rdr])
    /\ UNCHANGED <<opt, file, opt2, run2>>

EndOfInput ==
    /\ run.pc = "rows"
    /\ run.rdr > Len(file.rows)
    /\ run' = Finish(run)
    /\ UNCHANGED <<opt, file, opt2, run2>>

Next ==
    \/ MainStart
    \/ GetDateRange
    \/ Open
    \/ ParseRecords
    \/ ParseKrakenFile
    \/ ParseStakeTax
    \/ EndOfInput

Spec == Init /\ [][Next]_vars

(***************************************************************************)
(* Two runs of the binary on the same input file, step by step side by     *)
(* side.  The command lines differ at most in --coin; each run reads the   *)
(* clock for itself.                                                       *)
(***************************************************************************)
PairInit ==
    /\ opt \in PairOpts
    /\ file \in Files(opt.input_format, PairMaxRows)
    /\ \E c \in {"DOT", "ksm", "doge"} : opt2 = [opt EXCEPT !.coin = c]
    /\ run = NewRun
    /\ run2 = NewRun

PairStep ==
    /\ run.pc # "exit" \/ run2.pc # "exit"
    /\ \E now \in ClockYears, now2 \in ClockYears :
          /\ run' = Advance(run, opt, file, now)
          /\ run2' = Advance(run2, opt2, file, now2)
    /\ UNCHANGED <<opt, file, opt2>>

PairNext == PairStep

SpecPair == PairInit /\ [][PairNext]_vars

(***************************************************************************)
(* Vocabulary of the properties.                                           *)
(***************************************************************************)
Exited(r) == r.pc = "exit"

\* The window of the run is known (get_date_range has returned it).
Ranged(r) == r.start_date # <<>>

\* What a run leaves behind: how it ended and the rows of the output file.
Outcome(r) == <<r.status, r.msg, r.wtr.rows>>

\* The serialised records among the rows written, in order.
DataRows(w) == SelectSeq(w.rows, LAMBDA x : x.kind = "record")

\* The row deserialises into the schema of the run's input format.
Deserialises(r, row) ==
    CASE r.input_format = "Subscan" -> IsSome(DeserializeSubscan(row))
      [] r.input_format = "Kraken" -> IsSome(DeserializeKraken(row))
      [] r.input_format = "StakeTax" -> IsSome(DeserializeStakeTax(row))

\* The row deserialises and its timestamp has the form YYYY-MM-DD HH:MM:SS.
Parses(r, row) == Deserialises(r, row) /\ IsSome(parse_from_str(row.date))

\* start <= date <= end, on the seconds of the two bounds.
DateInWindow(r, dt) ==
    Seconds(r.start_date) <= Seconds(dt) /\ Seconds(dt) <= Seconds(r.end_date)

\* The acceptance predicate of the run's input format.
Predicate(r, row) ==
    CASE r.input_format = "Subscan" -> TRUE
      [] r.input_format = "Kraken" -> row.label = "staking"
      [] r.input_format = "StakeTax" -> row.label = "STAKING"

\* The row parses, is inside the window and satisfies the predicate.
Accepted(r, row) ==
    /\ Parses(r, row)
    /\ DateInWindow(r, Unwrap(parse_from_str(row.date)))
    /\ Predicate(r, row)

\* The asset of a kraken row is no alias of a coin.
UnknownAsset(row) == ~IsSome(CoinFromStr(row.asset))

\* The symbol of the record made from an accepted row.
SymbolFor(r, row) ==
    IF r.input_format = "Kraken"
    THEN (IF UnknownAsset(row) THEN "?" ELSE Unwrap(CoinFromStr(row.asset)))
    ELSE r.coin

\* The amount of the record made from an accepted row.
AmountFor(r, row) ==
    IF IsSome(ParseF64(row.amount)) THEN Unwrap(ParseF64(row.amount)) ELSE 0

\* The output row of an accepted input row.
OutputRowFor(r, row) ==
    LET dt == Unwrap(parse_from_str(row.date))
    IN  IF r.output_format = "BitcoinTax"
        THEN [kind |-> "record",
              cells |-> <<Stamp("T", dt), "INCOME",
                          CoinIntoString(SymbolFor(r, row)) \o " STAKING",
                          SymbolFor(r, row), AmountFor(r, row)>>]
        ELSE [kind |-> "record",
              cells |-> <<"Income", AmountFor(r, row),
                          CoinIntoString(SymbolFor(r, row)), 0, "USD", 0, "USD",
                          "", "Polkadot Staking", "Self-Staking",
                          Stamp("T", dt), "", 0>>]

\* The output rows of the accepted rows among the first n input rows.
RECURSIVE ExpectedRows(_, _, _)
ExpectedRows(r, rows, n) ==
    IF n = 0 THEN <<>>
    ELSE IF Accepted(r, rows[n])
         THEN Append(ExpectedRows(r, rows, n - 1), OutputRowFor(r, rows[n]))
         ELSE ExpectedRows(r, rows, n - 1)

\* The timestamp cell of a serialised record.
DateCell(r, out) ==
    IF r.output_format = "BitcoinTax" THEN out.cells[1] ELSE out.cells[11]

\* Row k is written: some record of the output is its output row.
IsWritten(r, row) ==
    \E j \in 1..Len(r.wtr.rows) :
        /\ r.wtr.rows[j].kind = "record"
        /\ r.wtr.rows[j] = OutputRowFor(r, row)

\* Rows 1..k-1 parse and are skipped by the filter.
AllSkippedBefore(r, rows, k) ==
    \A j \in 1..(k - 1) : Parses(r, rows[j]) /\ ~Accepted(r, rows[j])

\* Row k is the first row that does not parse.
FirstUnparsed(r, rows, k) ==
    /\ ~Parses(r, rows[k])
    /\ \A j \in 1..(k - 1) : Parses(r, rows[j])

(***************************************************************************)
(* C1.  As claimed: in every pipeline and for any input, every row that    *)
(* parses, satisfies the acceptance predicate and is dated inside          *)
(* [start, end] is in the output when the run has ended.                   *)
(***************************************************************************)
C1_EveryAcceptedRowWritten ==
    (Exited(run) /\ Ranged(run)) =>
        \A k \in 1..Len(file.rows) :
            Accepted(run, file.rows[k]) => IsWritten(run, file.rows[k])

\* C1, amended: when a run ends successfully, every row that parses,
\* satisfies the acceptance predicate and is dated inside [start, end]
\* (the two bounds included) is in the output; and in every run, ended or
\* not, successful or not, every record written is dated inside
\* [start, end].
C1_InclusiveWindow ==
    /\ run.status = "ok" =>
          \A k \in 1..Len(file.rows) :
              Accepted(run, file.rows[k]) => IsWritten(run, file.rows[k])
    /\ \A j \in 1..Len(run.wtr.rows) :
          run.wtr.rows[j].kind = "record" =>
              DateInWindow(run, DateCell(run, run.wtr.rows[j]).f)

\* A second-quarter run that ended well on a file of two rows, one dated
\* at the first second of the window and one at its last, both written.
C1_BothBoundsWritten ==
    /\ run.status = "ok"
    /\ run.quarter = "Q2"
    /\ Len(file.rows) = 2
    /\ file.rows[1].date = Q2Start
    /\ file.rows[2].date = Q2End
    /\ Len(DataRows(run.wtr)) = 2
    /\ DateCell(run, DataRows(run.wtr)[1]).f = run.start_date
    /\ DateCell(run, DataRows(run.wtr)[2]).f = run.end_date

(***************************************************************************)
(* C2.  get_date_range maps quarter and year Y to the claimed window.      *)
(***************************************************************************)
Quarters == {"Q1", "Q2", "Q3", "Q4", "ALL"}

\* The window the claim gives for a quarter of year y.
ClaimedWindow(q, y) ==
    CASE q = "Q1" -> <<(<<y, 1, 1, 0, 0, 0>>), (<<y, 3, 31, 23, 59, 59>>)>>
      [] q = "Q2" -> <<(<<y, 4, 1, 0, 0, 0>>), (<<y, 6, 30, 23, 59, 59>>)>>
      [] q = "Q3" -> <<(<<y, 7, 1, 0, 0, 0>>), (<<y, 9, 30, 23, 59, 59>>)>>
      [] q = "Q4" -> <<(<<y, 10, 1, 0, 0, 0>>), (<<y, 12, 31, 23, 59, 59>>)>>
      [] q = "ALL" -> <<(<<y, 1, 1, 0, 0, 0>>), (<<y, 12, 31, 23, 59, 59>>)>>

\* The timestamps of the model's input rows, moved to year y.
ProbesOf(y) ==
    {<<y, d[2], d[3], d[4], d[5], d[6]>> :
        d \in {Q1End.f, Q2Start.f, Q2End.f, Q3Start.f,
               <<y, 1, 1, 0, 0, 0>>, <<y, 2, 28, 12, 30, 30>>,
               <<y, 9, 30, 23, 59, 59>>, <<y, 10, 1, 0, 0, 0>>,
               <<y, 12, 31, 23, 59, 59>>}}

\* C2: once a run has its window, the window is the claimed one for the
\* run's quarter and year; and for that year get_date_range gives every
\* selector its claimed window, with start <= end, Q1 starting where ALL
\* starts, each later quarter starting one second after the one before it
\* ends, Q4 ending where ALL ends (so the quarters are disjoint and cover
\* ALL), and each probed second of the year in exactly one quarter.
C2_QuarterWindows ==
    Ranged(run) =>
        LET y == run.year
            w1 == get_date_range("Q1", y)
            w2 == get_date_range("Q2", y)
            w3 == get_date_range("Q3", y)
            w4 == get_date_range("Q4", y)
            wa == get_date_range("ALL", y)
            s1 == Seconds(w1[1][1])
            e1 == Seconds(w1[1][2])
            s2 == Seconds(w2[1][1])
            e2 == Seconds(w2[1][2])
            s3 == Seconds(w3[1][1])
            e3 == Seconds(w3[1][2])
            s4 == Seconds(w4[1][1])
            e4 == Seconds(w4[1][2])
            bounds == {<<s1, e1>>, <<s2, e2>>, <<s3, e3>>, <<s4, e4>>}
        IN  /\ <<run.start_date, run.end_date>> = ClaimedWindow(run.quarter, y)
            /\ w1 = Some(ClaimedWindow("Q1", y))
            /\ w2 = Some(ClaimedWindow("Q2", y))
            /\ w3 = Some(ClaimedWindow("Q3", y))
            /\ w4 = Some(ClaimedWindow("Q4", y))
            /\ wa = Some(ClaimedWindow("ALL", y))
            /\ s1 <= e1 /\ s2 <= e2 /\ s3 <= e3 /\ s4 <= e4
            /\ Seconds(wa[1][1]) <= Seconds(wa[1][2])
            /\ s1 = Seconds(wa[1][1])
            /\ s2 = e1 + 1
            /\ s3 = e2 + 1
            /\ s4 = e3 + 1
            /\ e4 = Seconds(wa[1][2])
            /\ \A t \in {Seconds(p) : p \in ProbesOf(y)} :
                  Cardinality({b \in bounds : b[1] <= t /\ t <= b[2]}) = 1

\* A fourth-quarter run in the leap year 2024 (read from the clock) that
\* has its window.
C2_LeapYearQ4 ==
    /\ run.pc = "rows"
    /\ run.quarter = "Q4"
    /\ run.year = 2024
    /\ run.start_date = <<2024, 10, 1, 0, 0, 0>>
    /\ run.end_date = <<2024, 12, 31, 23, 59, 59>>

(***************************************************************************)
(* C3.  As claimed: every run that ends without error, whatever the input  *)
(* format and the input, leaves an output whose first row is the header of *)
(* the chosen output schema, followed by data rows only.  (Stated for the  *)
(* combinations of formats that can write a record.)                       *)
(***************************************************************************)
\* The cointracking output with kraken or staketax input.
Unsupported(r) ==
    r.output_format = "CoinTracking" /\ r.input_format \in {"Kraken", "StakeTax"}

C3_HeaderThenData ==
    (run.status = "ok" /\ ~Unsupported(run)) =>
        /\ Len(run.wtr.rows) >= 1
        /\ run.wtr.rows[1] = (IF run.output_format = "BitcoinTax"
                              THEN BitcoinTaxHeader ELSE CoinTrackingHeader)
        /\ \A j \in 2..Len(run.wtr.rows) : run.wtr.rows[j].kind = "record"

(***************************************************************************)
(* C4.  The cointracking output with kraken or staketax input.             *)
(***************************************************************************)
\* Row k is the first accepted row, no row before it stops the run, and
\* (kraken) its asset is a coin.
FirstAccepted(r, rows, k) ==
    /\ Accepted(r, rows[k])
    /\ AllSkippedBefore(r, rows, k)
    /\ r.input_format = "Kraken" => ~UnknownAsset(rows[k])

\* C4 as claimed: such a run, on any input file there is, always ends in
\* the "not supported" error.
C4_AlwaysNotSupported ==
    (Unsupported(run) /\ Exited(run) /\ file.exists) =>
        (run.status = "panic" /\ run.msg = "Not currently supported")

\* C4, amended: such a run never writes a data row; it ends in the "not
\* supported" panic exactly when the input holds a row that is accepted
\* (and, for kraken, names a known coin) with only skipped rows before it;
\* the panic is raised in the loop, at that row, not at startup; a run
\* that meets no such row and no other error ends successfully.
C4_NotSupportedAtFirstAccepted ==
    Unsupported(run) =>
        /\ DataRows(run.wtr) = <<>>
        /\ run.msg = "Not currently supported" =>
              /\ run.status = "panic"
              /\ run.rdr \in 1..Len(file.rows)
              /\ FirstAccepted(run, file.rows, run.rdr)
        /\ (Exited(run) /\ Ranged(run)) =>
              ((run.msg = "Not currently supported")
                  <=> \E k \in 1..Len(file.rows) : FirstAccepted(run, file.rows, k))
        /\ (Exited(run) /\ Ranged(run) /\ file.exists
                /\ \A k \in 1..Len(file.rows) :
                      Parses(run, file.rows[k]) /\ ~Accepted(run, file.rows[k]))
              => run.status = "ok"

\* The panic at the second row of a file whose first row was skipped.
C4_PanicAtSecondRow ==
    /\ Unsupported(run)
    /\ run.msg = "Not currently supported"
    /\ run.rdr = 2
    /\ ~Accepted(run, file.rows[1])

(***************************************************************************)
(* C5.  One pass, in order.                                                *)
(***************************************************************************)
\* C5: from the moment the files are open, the reader has yielded the rows
\* before rdr and no other (a run that stops at a row stays at it), and
\* the data rows written are exactly the output rows of the accepted rows
\* among them, in input order, one for each.
C5_OrderPreserving ==
    run.wtr.header # "None" =>
        /\ run.rdr \in 1..(Len(file.rows) + 1)
        /\ DataRows(run.wtr) = ExpectedRows(run, file.rows, run.rdr - 1)
        /\ run.status = "ok" => run.rdr = Len(file.rows) + 1

\* A run that ended well after writing two different records.
C5_TwoRowsInOrder ==
    /\ run.status = "ok"
    /\ Len(file.rows) = 2
    /\ Len(DataRows(run.wtr)) = 2
    /\ DataRows(run.wtr)[1] # DataRows(run.wtr)[2]
    /\ DataRows(run.wtr)[1] = OutputRowFor(run, file.rows[1])

(***************************************************************************)
(* C8.  As claimed: every BitcoinTax record written has action "INCOME"    *)
(* and an account that is its own symbol followed by " STAKING".           *)
(***************************************************************************)
C8_AccountIsSymbolStaking ==
    run.output_format = "BitcoinTax" =>
        \A j \in 1..Len(run.wtr.rows) :
            run.wtr.rows[j].kind = "record" =>
                /\ run.wtr.rows[j].cells[2] = "INCOME"
                /\ run.wtr.rows[j].cells[3]
                       = run.wtr.rows[j].cells[4] \o " STAKING"

(***************************************************************************)
(* C9.  Fail-fast on rows that do not parse.                               *)
(***************************************************************************)
\* C9: if row k is the first input row that fails to deserialise or whose
\* timestamp is not YYYY-MM-DD HH:MM:SS, the reader never gets past row k,
\* no more than the k-1 rows before it are ever in the output, the run
\* never ends successfully, and a run that has read the rows before k and
\* has ended has ended with an error.
C9_FailFast ==
    (run.pc \in {"rows", "exit"} /\ Ranged(run)) =>
        \A k \in 1..Len(file.rows) :
            FirstUnparsed(run, file.rows, k) =>
                /\ run.rdr <= k
                /\ Len(DataRows(run.wtr)) <= k - 1
                /\ DataRows(run.wtr) = ExpectedRows(run, file.rows, run.rdr - 1)
                /\ run.status # "ok"
                /\ (Exited(run) /\ run.rdr = k) => run.status = "error"

\* A run stopped with an error at its second row, which does not parse
\* but carries a label the filter accepts, after writing the first.
C9_ErrorAtSecondRow ==
    /\ run.status = "error"
    /\ run.rdr = 2
    /\ Len(file.rows) = 2
    /\ FirstUnparsed(run, file.rows, 2)
    /\ Predicate(run, file.rows[2])
    /\ Len(DataRows(run.wtr)) = 1

(***************************************************************************)
(* C10.  Kraken rows whose asset is no coin.                               *)
(***************************************************************************)
\* C10 as claimed: a kraken run over an input that holds a row whose
\* asset is no alias of a coin never ends successfully.
C10_UnknownAssetNeverOk ==
    (run.input_format = "Kraken" /\ run.status = "ok") =>
        \A k \in 1..Len(file.rows) : ~UnknownAsset(file.rows[k])

\* C10, amended: in a kraken run, a row that is accepted (it parses, is
\* inside the window and has type "staking") and whose asset is no alias
\* of a coin is never passed: the reader never gets beyond it, the run
\* never ends successfully, no record is written for it, and a run that
\* has ended at that row with only parsed rows before it has ended in the
\* panic "Invalid coin type!".  Every record written carries a coin.
C10_AcceptedUnknownAssetPanics ==
    (run.input_format = "Kraken" /\ Ranged(run)) =>
        /\ \A k \in 1..Len(file.rows) :
              (Accepted(run, file.rows[k]) /\ UnknownAsset(file.rows[k])) =>
                  /\ run.rdr <= k
                  /\ run.status # "ok"
                  /\ Len(DataRows(run.wtr)) <= k - 1
                  /\ (Exited(run) /\ run.rdr = k
                          /\ \A j \in 1..(k - 1) : Parses(run, file.rows[j]))
                        => (run.status = "panic" /\ run.msg = "Invalid coin type!")
        /\ \A j \in 1..Len(run.wtr.rows) :
              run.wtr.rows[j].kind = "record" =>
                  run.wtr.rows[j].cells[4] \in Coin

\* The panic at the second row, an accepted row with asset "doge", after
\* the first row was written.
C10_PanicAtDoge ==
    /\ run.input_format = "Kraken"
    /\ run.status = "panic"
    /\ run.msg = "Invalid coin type!"
    /\ run.rdr = 2
    /\ file.rows[2].asset = "doge"
    /\ Len(DataRows(run.wtr)) = 1

(***************************************************************************)
(* C6, C7.  Two runs on the same input.                                    *)
(***************************************************************************)
BothExited == Exited(run) /\ Exited(run2)

IsKraken(o) == InputFormatOf(o.input_format) = Some("Kraken")

\* The symbols of the records written.
Symbols(w) == [j \in 1..Len(DataRows(w)) |-> DataRows(w)[j].cells[4]]

\* The coins of the assets of the accepted rows among the first n rows.
RECURSIVE AssetCoins(_, _, _)
AssetCoins(r, rows, n) ==
    IF n = 0 THEN <<>>
    ELSE IF Accepted(r, rows[n])
         THEN Append(AssetCoins(r, rows, n - 1), SymbolFor(r, rows[n]))
         ELSE AssetCoins(r, rows, n - 1)

\* C6 as claimed: two kraken runs on the same input file whose command
\* lines differ only in --coin (the year given with --year) end alike.
C6_AnyCoinSameOutcome ==
    (BothExited /\ IsKraken(opt) /\ IsSome(opt.year) /\ file.exists) =>
        Outcome(run) = Outcome(run2)

\* C6, amended: two kraken runs on the same input whose command lines
\* differ only in --coin, both values being names of coins, and that
\* resolve the same year, end with the same outcome and the same output;
\* and the symbols of the records of a kraken run are the coins parsed
\* from the assets of the accepted rows it read, in order.
C6_KnownCoinIgnored ==
    /\ (BothExited /\ IsKraken(opt)
            /\ IsSome(CoinFromStr(opt.coin)) /\ IsSome(CoinFromStr(opt2.coin))
            /\ (IsSome(opt.year) \/ run.year = run2.year))
          => Outcome(run) = Outcome(run2)
    /\ (run.input_format = "Kraken" /\ run.output_format = "BitcoinTax"
            /\ run.wtr.header # "None")
          => Symbols(run.wtr) = AssetCoins(run, file.rows, run.rdr - 1)

\* Two kraken runs, --coin DOT and --coin ksm, that both ended well with a
\* record in the output.
C6_TwoCoinsOneOutput ==
    /\ BothExited
    /\ IsKraken(opt)
    /\ opt.coin = "DOT"
    /\ opt2.coin = "ksm"
    /\ run.status = "ok"
    /\ run2.status = "ok"
    /\ Len(DataRows(run.wtr)) = 1
    /\ Len(DataRows(run2.wtr)) = 1

\* C7 as claimed: two runs with the same input and the same command line,
\* --year given or not, end with the same outcome and the same output.
C7_SameCommandSameOutcome ==
    (BothExited /\ opt2 = opt) => Outcome(run) = Outcome(run2)

\* C7, amended: two runs with the same input and the same command line
\* end with the same outcome and the same output if --year is given, or
\* if the clock shows both runs the same year.
C7_SameYearSameOutcome ==
    (BothExited /\ opt2 = opt /\ (IsSome(opt.year) \/ run.year = run2.year))
        => Outcome(run) = Outcome(run2)

\* Two runs of one command line with --year 2021 that both wrote a record.
C7_TwoRunsWithYear ==
    /\ BothExited
    /\ opt2 = opt
    /\ opt.year = Some(2021)
    /\ run.status = "ok"
    /\ run2.status = "ok"
    /\ Len(DataRows(run.wtr)) = 1
    /\ Len(DataRows(run2.wtr)) = 1

====
